---------------------------- MODULE Spec2Model ----------------------------
(***************************************************************************)
(* The notification coordination of app/repositories/lightning.py: the     *)
(* startup guard, the info poller, the invoice relay, the forward          *)
(* aggregator with its delayed flush cycle and the debounced wallet        *)
(* balance refresh, running as asyncio tasks on one event loop.            *)
(*                                                                         *)
(* The event loop is modelled by its FIFO queue of runnable tasks:         *)
(* loop.create_task appends the new task, the completion of an awaited     *)
(* operation (a backend call, a publish, a sleep, a stream item) appends   *)
(* the awaiting task, and a task step runs the task at the head of the     *)
(* queue from the await it was suspended in up to its next await.          *)
(* A pc named Lnnn means: suspended in the await of source line nnn.       *)
(***************************************************************************)
EXTENDS Naturals, Sequences, FiniteSets

\* ---- bounds of the model ----
MaxPolls    == 3      \* fetches of the info poller
MaxForwards == 2      \* forward events the backend delivers
MaxInvoices == 2      \* invoice events the backend delivers
MaxSends    == 1      \* calls of each of send_coins, send_payment

\* ---- values ----
\* Python's None, as a value that compares unequal to every snapshot
None == [none |-> TRUE]
\* the values ln_node can be configured to (lines 29-41): one supported
\* backend, the two "absent" values and an unknown one
LnNodes == {"lnd_grpc", "none", "", "unknown"}
\* an LnInfo snapshot: the fields LightningInfoLite keeps, and the others
LnInfo == [lite_fields : {0, 1}, other_fields : {0, 1}]
WalletBalance == [total_balance : {0, 1}]
SendFunctions == {"send_coins", "send_payment"}
\* an invoice event of ln.listen_invoices(); two events can be equal
InvoiceEvents == [settled : BOOLEAN]
\* how a call of ln.get_ln_info_impl() ends
ProbeFailures == {"HTTP_423_LOCKED", "NotImplementedError", "Exception"}

VARIABLES
    ln_node,                           \* line 29
    ENABLE_FWD_NOTIFICATIONS,          \* lines 47-49
    _CACHE,                            \* line 45, the "wallet_balance" entry
    _fwd_update_scheduled,             \* line 232
    _fwd_successes,                    \* line 233
    _wallet_balance_update_scheduled,  \* line 265
    ready,        \* the event loop's queue of runnable tasks
    reg,          \* the call of register_lightning_listener
    info,         \* the task _handle_info_listener and its locals
    inv,          \* the task _handle_invoice_listener
    fwd,          \* the task _handle_forward_event_listener
    send,         \* the calls of send_coins and send_payment
    fwdTasks,     \* the tasks _schedule_fwd_update, in creation order
    balTasks,     \* the tasks _perform_update, in creation order
    pub,          \* what broadcast_sse_msg was called with, per channel
    count,        \* how much of each bound is used
    infoLog,      \* history: per fetch of the poller, what it published
    fwdWin,       \* history: per forward event, the flush cycles waiting
    balWin        \* history: per balance signal, the refresh cycles waiting

cfgVars  == <<ln_node, ENABLE_FWD_NOTIFICATIONS>>
infoVars == <<info, infoLog>>
fwdVars  == <<fwd, fwdTasks, fwdWin, _fwd_update_scheduled, _fwd_successes>>
balVars  == <<balTasks, balWin, _wallet_balance_update_scheduled, _CACHE>>
vars == <<cfgVars, infoVars, fwdVars, balVars, ready, reg, inv, send, pub, count>>

\* a task of the event loop: its kind and, for the delayed cycles, its index
H(k, i) == [k |-> k, i |-> i]
InReady(h) == \E n \in DOMAIN ready : ready[n] = h
\* the task h is the one the event loop runs next
Running(h) == ready # <<>> /\ Head(ready) = h
\* the task h is suspended in an await whose operation has not completed
Awaiting(h) == ~InReady(h)

\* lines 191: the values for which no lightning backend is configured
NotConfigured(node) == node = "" \/ node = "none"
\* lines 30-41: the module `ln` is imported only for a supported backend
LnImported(node) == node = "lnd_grpc"

\* LightningInfoLite.from_lninfo (lines 65, 217): the lite projection
from_lninfo(i) == [lite_fields |-> i.lite_fields]

Init ==
    /\ ln_node \in LnNodes
    /\ ENABLE_FWD_NOTIFICATIONS \in BOOLEAN
    /\ _CACHE = None
    /\ _fwd_update_scheduled = FALSE
    /\ _fwd_successes = <<>>
    /\ _wallet_balance_update_scheduled = FALSE
    /\ ready = <<>>
    /\ reg = [pc |-> "idle", res |-> "", probed |-> FALSE]
    /\ info = [pc |-> "none", last_info |-> None, last_info_lite |-> None,
               info |-> None, raised |-> FALSE]
    /\ inv = [pc |-> "none", i |-> None, stream |-> <<>>]
    /\ fwd = [pc |-> "none", i |-> 0, seen |-> <<>>, ahead |-> <<>>]
    /\ send = [f \in SendFunctions |-> [pc |-> "idle", raised |-> FALSE]]
    /\ fwdTasks = <<>>
    /\ balTasks = <<>>
    /\ pub = [ln_info |-> <<>>, ln_info_lite |-> <<>>, invoice |-> <<>>,
              forward_successes |-> <<>>, fee_revenue |-> <<>>,
              wallet_balance |-> <<>>]
    /\ count = [polls |-> 0, forwards |-> 0, invoices |-> 0,
                send_coins |-> 0, send_payment |-> 0]
    /\ infoLog = <<>>
    /\ fwdWin = <<>>
    /\ balWin = <<>>

\* the background loops that have been launched
Loops == {k \in {"info", "inv", "fwd"} :
            CASE k = "info" -> info.pc # "none"
              [] k = "inv"  -> inv.pc # "none"
              [] k = "fwd"  -> fwd.pc # "none"}

-----------------------------------------------------------------------------
\* register_lightning_listener, lines 180-204

\* a faulty test: only "none" counts as no backend
SkipsRegistration_NoneOnly(node) == node = "none"
\* line 191: the call returns without probing
SkipsRegistration(node) == NotConfigured(node)

\* lines 189-197: the call up to its await of the probe. An unknown ln_node
\* leaves `ln` unbound, and line 197 raises NameError before any await.
register_lightning_listener_call ==
    /\ reg.pc \in {"idle", "returned", "raised"}
    /\ Loops = {}
    /\ reg' = IF SkipsRegistration(ln_node)
                THEN [reg EXCEPT !.pc = "returned", !.res = "skipped"]
              ELSE IF ~LnImported(ln_node)
                THEN [reg EXCEPT !.pc = "raised", !.res = "NameError"]
              ELSE [reg EXCEPT !.pc = "L197", !.res = "", !.probed = TRUE]
    /\ UNCHANGED <<cfgVars, infoVars, fwdVars, balVars, ready, inv, send, pub, count>>

\* line 197: ln.get_ln_info_impl() returns to the probe
probe_returns ==
    /\ reg.pc = "L197" /\ Awaiting(H("reg", 0))
    /\ reg' = [reg EXCEPT !.res = "ok"]
    /\ ready' = Append(ready, H("reg", 0))
    /\ UNCHANGED <<cfgVars, infoVars, fwdVars, balVars, inv, send, pub, count>>

\* line 197: ln.get_ln_info_impl() raises (423 when the wallet is locked)
probe_raises ==
    /\ reg.pc = "L197" /\ Awaiting(H("reg", 0))
    /\ \E e \in ProbeFailures : reg' = [reg EXCEPT !.res = e]
    /\ ready' = Append(ready, H("reg", 0))
    /\ UNCHANGED <<cfgVars, infoVars, fwdVars, balVars, inv, send, pub, count>>

\* lines 199-202: the tasks the call creates, in creation order
LaunchedLoops == <<H("info", 0), H("inv", 0), H("fwd", 0)>>
Launches(k) == \E n \in DOMAIN LaunchedLoops : LaunchedLoops[n] = H(k, 0)

\* lines 197-204: the call resumes from the probe
register_lightning_listener_resume ==
    /\ Running(H("reg", 0))
    /\ IF reg.res = "ok"
         THEN /\ reg' = [reg EXCEPT !.pc = "returned"]
              /\ ready' = Tail(ready) \o LaunchedLoops
              /\ info' = [info EXCEPT !.pc = IF Launches("info") THEN "new" ELSE @]
              /\ inv' = [inv EXCEPT !.pc = IF Launches("inv") THEN "new" ELSE @]
              /\ fwd' = [fwd EXCEPT !.pc = IF Launches("fwd") THEN "new" ELSE @]
         ELSE /\ reg' = [reg EXCEPT !.pc = "raised",
                           !.res = IF @ = "NotImplementedError"
                                     THEN "HTTP_501_NOT_IMPLEMENTED" ELSE @]
              /\ ready' = Tail(ready)
              /\ UNCHANGED <<info, inv, fwd>>
    /\ UNCHANGED <<cfgVars, infoLog, fwdTasks, fwdWin, _fwd_update_scheduled,
                   _fwd_successes, balVars, send, pub, count>>

-----------------------------------------------------------------------------
\* _handle_info_listener, lines 207-223

\* a faulty gate: it compares only the fields the lite projection drops
InfoChanged_OtherOnly(last_info, i) ==
    IF last_info = None THEN TRUE ELSE last_info.other_fields # i.other_fields
\* a faulty gate: it passes for every snapshot
InfoChanged_Always(last_info, i) == TRUE
\* line 213
InfoChanged(last_info, i) == last_info # i
\* a faulty gate: it passes for every lite snapshot
InfoLiteChanged_Always(last_info_lite, info_lite) == TRUE
\* line 219
InfoLiteChanged(last_info_lite, info_lite) == last_info_lite # info_lite

Publish(channel, payload) == [pub EXCEPT ![channel] = Append(@, payload)]

\* lines 217-223: from the lite projection to the await of the sleep
InfoLiteGate(rec, p, log) ==
    IF InfoLiteChanged(rec.last_info_lite, from_lninfo(rec.info))
      THEN /\ info' = [rec EXCEPT !.pc = "L220"]
           /\ pub' = [p EXCEPT !.ln_info_lite = Append(@, from_lninfo(rec.info))]
           /\ infoLog' = [log EXCEPT ![Len(log)].lite = TRUE]
      ELSE /\ info' = [rec EXCEPT !.pc = "L223"]
           /\ pub' = p
           /\ infoLog' = log

\* the task runs: from its creation or from its completed await to its next await
_handle_info_listener ==
    /\ Running(H("info", 0))
    /\ ready' = Tail(ready)
    /\ CASE info.pc \in {"new", "L223"} ->
              \* line 211: the fetch is called
              /\ info' = [info EXCEPT !.pc = "L211"]
              /\ UNCHANGED <<pub, infoLog>>
         [] info.pc = "L211" /\ info.raised ->
              \* line 211 raises: nothing catches it, the task ends
              /\ info' = [info EXCEPT !.pc = "raised"]
              /\ UNCHANGED <<pub, infoLog>>
         [] info.pc = "L211" /\ ~info.raised ->
              IF InfoChanged(info.last_info, info.info)
                THEN /\ info' = [info EXCEPT !.pc = "L214"]
                     /\ pub' = Publish("ln_info", info.info)
                     /\ infoLog' = [infoLog EXCEPT ![Len(infoLog)].full = TRUE]
                ELSE InfoLiteGate(info, pub, infoLog)
         [] info.pc = "L214" ->
              InfoLiteGate([info EXCEPT !.last_info = info.info], pub, infoLog)
         [] info.pc = "L220" ->
              /\ info' = [info EXCEPT !.pc = "L223",
                            !.last_info_lite = from_lninfo(info.info)]
              /\ UNCHANGED <<pub, infoLog>>
    /\ UNCHANGED <<cfgVars, fwdVars, balVars, reg, inv, send, count>>

\* line 211: ln.get_ln_info_impl() returns a snapshot to the poller
get_ln_info_impl_returns ==
    /\ info.pc = "L211" /\ Awaiting(H("info", 0))
    /\ count.polls < MaxPolls
    /\ \E i \in LnInfo :
         /\ info' = [info EXCEPT !.info = i]
         /\ infoLog' = Append(infoLog, [info |-> i, full |-> FALSE, lite |-> FALSE])
    /\ count' = [count EXCEPT !.polls = @ + 1]
    /\ ready' = Append(ready, H("info", 0))
    /\ UNCHANGED <<cfgVars, fwdVars, balVars, reg, inv, send, pub>>

\* line 211: ln.get_ln_info_impl() raises in the poller
get_ln_info_impl_raises ==
    /\ info.pc = "L211" /\ Awaiting(H("info", 0))
    /\ count.polls < MaxPolls
    /\ info' = [info EXCEPT !.raised = TRUE]
    /\ count' = [count EXCEPT !.polls = @ + 1]
    /\ ready' = Append(ready, H("info", 0))
    /\ UNCHANGED <<cfgVars, infoLog, fwdVars, balVars, reg, inv, send, pub>>

-----------------------------------------------------------------------------
\* _schedule_wallet_balance_update, lines 268-283

\* a refresh cycle is in its delay: created, or in the sleep of line 272
InDelay(t) == t.pc \in {"new", "L272"}
Delaying(tasks) == {n \in DOMAIN tasks : InDelay(tasks[n])}
\* a flush cycle is in its wait: created, or in the sleep of line 243
InWait(t) == t.pc \in {"new", "L243"}
Waiting(tasks) == {n \in DOMAIN tasks : InWait(tasks[n])}

\* the flush cycles that have not called get_fee_revenue (line 251) yet
BeforeFetch(tasks) ==
    {n \in DOMAIN tasks : tasks[n].pc \in {"new", "L243", "L248"}}

\* line 281: the call creates a task
CreatesUpdate(scheduled) == ~scheduled

\* lines 280-283, called by a running task that leaves the queue as rdy:
\* the flag is read here and set by the created task when it first runs
_schedule_wallet_balance_update(rdy) ==
    LET creates == CreatesUpdate(_wallet_balance_update_scheduled)
        tasks == IF creates
                   THEN Append(balTasks, [pc |-> "new", wb |-> None, raised |-> FALSE,
                                          by |-> Len(balWin) + 1])
                   ELSE balTasks
    IN  /\ balTasks' = tasks
        /\ ready' = IF creates THEN Append(rdy, H("update", Len(tasks))) ELSE rdy
        /\ balWin' = Append(balWin, Delaying(tasks))

\* _perform_update, lines 269-278: the task runs up to its next await
_perform_update ==
    \E n \in DOMAIN balTasks :
      LET t == balTasks[n] IN
      /\ Running(H("update", n))
      /\ ready' = Tail(ready)
      /\ CASE t.pc = "new" ->
                /\ _wallet_balance_update_scheduled' = TRUE
                /\ balTasks' = [balTasks EXCEPT ![n].pc = "L272"]
                /\ UNCHANGED <<pub, _CACHE>>
           [] t.pc = "L272" ->
                /\ balTasks' = [balTasks EXCEPT ![n].pc = "L273"]
                /\ UNCHANGED <<pub, _CACHE, _wallet_balance_update_scheduled>>
           [] t.pc = "L273" /\ t.raised ->
                \* line 273 raises: the task ends before line 278
                /\ balTasks' = [balTasks EXCEPT ![n].pc = "raised"]
                /\ UNCHANGED <<pub, _CACHE, _wallet_balance_update_scheduled>>
           [] t.pc = "L273" /\ ~t.raised ->
                IF _CACHE # t.wb
                  THEN /\ pub' = Publish("wallet_balance", [by |-> n, wb |-> t.wb])
                       /\ balTasks' = [balTasks EXCEPT ![n].pc = "L275"]
                       /\ UNCHANGED <<_CACHE, _wallet_balance_update_scheduled>>
                  ELSE /\ _wallet_balance_update_scheduled' = FALSE
                       /\ balTasks' = [balTasks EXCEPT ![n].pc = "done"]
                       /\ UNCHANGED <<pub, _CACHE>>
           [] t.pc = "L275" ->
                /\ _CACHE' = t.wb
                /\ _wallet_balance_update_scheduled' = FALSE
                /\ balTasks' = [balTasks EXCEPT ![n].pc = "done"]
                /\ UNCHANGED pub
      /\ UNCHANGED <<cfgVars, infoVars, fwdVars, balWin, reg, inv, send, count>>

\* line 273: ln.get_wallet_balance_impl() returns
get_wallet_balance_impl_returns ==
    \E n \in DOMAIN balTasks, wb \in WalletBalance :
      /\ balTasks[n].pc = "L273" /\ Awaiting(H("update", n))
      /\ balTasks' = [balTasks EXCEPT ![n].wb = wb]
      /\ ready' = Append(ready, H("update", n))
      /\ UNCHANGED <<cfgVars, infoVars, fwdVars, balWin, _CACHE,
                     _wallet_balance_update_scheduled, reg, inv, send, pub, count>>

\* line 273: ln.get_wallet_balance_impl() raises
get_wallet_balance_impl_raises ==
    \E n \in DOMAIN balTasks :
      /\ balTasks[n].pc = "L273" /\ Awaiting(H("update", n)) /\ ~balTasks[n].raised
      /\ balTasks' = [balTasks EXCEPT ![n].raised = TRUE]
      /\ ready' = Append(ready, H("update", n))
      /\ UNCHANGED <<cfgVars, infoVars, fwdVars, balWin, _CACHE,
                     _wallet_balance_update_scheduled, reg, inv, send, pub, count>>

-----------------------------------------------------------------------------
\* _handle_invoice_listener, lines 226-229

\* a faulty relay: an event equal to the last published one is suppressed
RelayPublishes_Gated(log, i) ==
    IF log # <<>> /\ log[Len(log)] = i THEN log ELSE Append(log, i)
\* line 228: the channel after the relay has published event i
RelayPublishes(log, i) == Append(log, i)

_handle_invoice_listener ==
    /\ Running(H("inv", 0))
    /\ CASE inv.pc = "new" ->
              \* line 227: the task waits for the stream
              /\ inv' = [inv EXCEPT !.pc = "L227"]
              /\ ready' = Tail(ready)
              /\ UNCHANGED <<pub, balTasks, balWin>>
         [] inv.pc = "L227" ->
              /\ inv' = [inv EXCEPT !.pc = "L228"]
              /\ pub' = [pub EXCEPT !.invoice = RelayPublishes(@, inv.i)]
              /\ ready' = Tail(ready)
              /\ UNCHANGED <<balTasks, balWin>>
         [] inv.pc = "L228" ->
              /\ inv' = [inv EXCEPT !.pc = "L227"]
              /\ _schedule_wallet_balance_update(Tail(ready))
              /\ UNCHANGED pub
    /\ UNCHANGED <<cfgVars, infoVars, fwdVars, _CACHE,
                   _wallet_balance_update_scheduled, reg, send, count>>

\* line 227: ln.listen_invoices() yields the next invoice event
listen_invoices_yields ==
    /\ inv.pc = "L227" /\ Awaiting(H("inv", 0))
    /\ count.invoices < MaxInvoices
    /\ count' = [count EXCEPT !.invoices = @ + 1]
    /\ \E i \in InvoiceEvents :
         inv' = [inv EXCEPT !.i = i, !.stream = Append(@, i)]
    /\ ready' = Append(ready, H("inv", 0))
    /\ UNCHANGED <<cfgVars, infoVars, fwdVars, balVars, reg, send, pub>>

-----------------------------------------------------------------------------
\* send_coins and send_payment, lines 115-131

\* lines 116, 127: the call up to its await of the backend; without an
\* imported backend the name `ln` is unbound and the call raises
SendAwait(f) == IF f = "send_coins" THEN "L116" ELSE "L127"

\* a faulty call: the balance is signalled whatever the backend did
SendSignals_Always(raised) == TRUE
\* lines 116-117, 127-130: the statement after the await runs when the
\* backend returned, and is skipped when it raised
SendSignals(raised) == ~raised

send_call ==
    \E f \in SendFunctions :
      /\ send[f].pc \in {"idle", "returned", "raised"}
      /\ count[f] < MaxSends
      /\ count' = [count EXCEPT ![f] = @ + 1]
      /\ send' = [send EXCEPT ![f] = [pc |-> IF LnImported(ln_node) THEN SendAwait(f) ELSE "raised",
                                      raised |-> ~LnImported(ln_node)]]
      /\ UNCHANGED <<cfgVars, infoVars, fwdVars, balVars, ready, reg, inv, pub>>

\* lines 116, 127: ln.send_coins_impl / ln.send_payment_impl returns or raises
send_impl_completes ==
    \E f \in SendFunctions, raises \in BOOLEAN :
      /\ send[f].pc = SendAwait(f) /\ Awaiting(H(f, 0))
      /\ send' = [send EXCEPT ![f].raised = raises]
      /\ ready' = Append(ready, H(f, 0))
      /\ UNCHANGED <<cfgVars, infoVars, fwdVars, balVars, reg, inv, pub, count>>

\* lines 116-118, 127-131: the call resumes from the backend
send_resume ==
    \E f \in SendFunctions :
      /\ Running(H(f, 0))
      /\ send' = [send EXCEPT ![f].pc = IF send[f].raised THEN "raised"
                                                          ELSE "returned"]
      /\ IF SendSignals(send[f].raised)
           THEN _schedule_wallet_balance_update(Tail(ready))
           ELSE /\ ready' = Tail(ready)
                /\ UNCHANGED <<balTasks, balWin>>
      /\ UNCHANGED <<cfgVars, infoVars, fwdVars, _CACHE,
                     _wallet_balance_update_scheduled, reg, inv, pub, count>>

-----------------------------------------------------------------------------
\* _handle_forward_event_listener and _schedule_fwd_update, lines 236-262

\* line 260: the arrival creates a flush task
CreatesFlush(scheduled) == ~scheduled
\* a faulty append: the event is buffered whatever the setting
BufferAfterArrival_Always(enabled, buffer, e) == Append(buffer, e)
\* lines 257-258: the buffer after the arrival of event e
BufferAfterArrival(enabled, buffer, e) ==
    IF enabled THEN Append(buffer, e) ELSE buffer
\* a faulty test: the flush publishes a batch whatever the buffer holds
HasForwards_Always(buffer) == TRUE
\* line 245: the flush has a batch to publish
HasForwards(buffer) == Len(buffer) > 0
\* a faulty swap: the flush publishes the buffer and does not replace it
BufferAfterSwap_Keep(buffer) == buffer
\* line 247: the buffer after the flush has taken its content
BufferAfterSwap(buffer) == <<>>

\* a faulty cycle: the flag is cleared when the cycle signals the balance
\* refresh, before the fee revenue is fetched
FlagAfterStep_Early(pc, scheduled) ==
    CASE pc = "new" -> TRUE
      [] pc \in {"L243", "L248"} -> FALSE
      [] OTHER -> scheduled
\* lines 241, 254: the flag after the cycle has run from the await at pc to
\* its next await or its end
FlagAfterStep(pc, scheduled) ==
    CASE pc = "new" -> TRUE
      [] pc = "L252" -> FALSE
      [] OTHER -> scheduled

\* lines 256-262. The stream is the backend's: after an event it either
\* suspends the listener, or yields the next event at once (more), and
\* then the listener handles it before any other task runs.
_handle_forward_event_listener ==
    /\ Running(H("fwd", 0))
    /\ UNCHANGED <<cfgVars, infoVars, balVars, reg, inv, send, pub,
                   _fwd_update_scheduled>>
    /\ CASE fwd.pc = "new" ->
              /\ fwd' = [fwd EXCEPT !.pc = "L256"]
              /\ ready' = Tail(ready)
              /\ UNCHANGED <<fwdTasks, fwdWin, _fwd_successes, count>>
         [] fwd.pc = "L256" ->
              LET creates == CreatesFlush(_fwd_update_scheduled)
                  tasks == IF creates
                             THEN Append(fwdTasks, [pc |-> "new", raised |-> FALSE,
                                                    by |-> fwd.i])
                             ELSE fwdTasks
                  rdy == IF creates
                           THEN Append(Tail(ready), H("flush", Len(tasks)))
                           ELSE Tail(ready)
                  \* history: the flag as this arrival found it
                  handled == [fwd EXCEPT !.seen = Append(@, _fwd_update_scheduled)]
              IN  /\ _fwd_successes' =
                        BufferAfterArrival(ENABLE_FWD_NOTIFICATIONS, _fwd_successes, fwd.i)
                  /\ fwdTasks' = tasks
                  /\ fwdWin' = Append(fwdWin, Waiting(tasks))
                  /\ \E more \in BOOLEAN :
                       IF more /\ count.forwards < MaxForwards
                         THEN /\ count' = [count EXCEPT !.forwards = @ + 1]
                              /\ fwd' = [handled EXCEPT
                                            !.i = count.forwards + 1,
                                            !.ahead = Append(@, BeforeFetch(tasks))]
                              /\ ready' = <<H("fwd", 0)>> \o rdy
                         ELSE /\ ~more
                              /\ ready' = rdy
                              /\ fwd' = handled
                              /\ UNCHANGED count

\* line 256: ln.listen_forward_events() yields to the suspended listener
listen_forward_events_yields ==
    /\ fwd.pc = "L256" /\ Awaiting(H("fwd", 0))
    /\ count.forwards < MaxForwards
    /\ count' = [count EXCEPT !.forwards = @ + 1]
    \* history: the flush cycles that have yet to fetch the fee revenue
    /\ fwd' = [fwd EXCEPT !.i = count.forwards + 1,
                          !.ahead = Append(@, BeforeFetch(fwdTasks))]
    /\ ready' = Append(ready, H("fwd", 0))
    /\ UNCHANGED <<cfgVars, infoVars, balVars, reg, inv, send, pub, fwdTasks,
                   fwdWin, _fwd_update_scheduled, _fwd_successes>>

\* _schedule_fwd_update, lines 237-254: the task runs up to its next await
_schedule_fwd_update ==
    \E n \in DOMAIN fwdTasks :
      LET t == fwdTasks[n] IN
      /\ Running(H("flush", n))
      /\ UNCHANGED <<cfgVars, infoVars, fwd, fwdWin, _CACHE,
                     _wallet_balance_update_scheduled, reg, inv, send, count>>
      /\ _fwd_update_scheduled' = FlagAfterStep(t.pc, _fwd_update_scheduled)
      /\ CASE t.pc = "new" ->
                /\ fwdTasks' = [fwdTasks EXCEPT ![n].pc = "L243"]
                /\ ready' = Tail(ready)
                /\ UNCHANGED <<pub, _fwd_successes, balTasks, balWin>>
           [] t.pc = "L243" /\ HasForwards(_fwd_successes) ->
                \* lines 246-248
                /\ pub' = Publish("forward_successes", [by |-> n, l |-> _fwd_successes])
                /\ _fwd_successes' = BufferAfterSwap(_fwd_successes)
                /\ fwdTasks' = [fwdTasks EXCEPT ![n].pc = "L248"]
                /\ ready' = Tail(ready)
                /\ UNCHANGED <<balTasks, balWin>>
           [] t.pc = "L248" \/ (t.pc = "L243" /\ ~HasForwards(_fwd_successes)) ->
                \* lines 250-251
                /\ _schedule_wallet_balance_update(Tail(ready))
                /\ fwdTasks' = [fwdTasks EXCEPT ![n].pc = "L251"]
                /\ UNCHANGED <<pub, _fwd_successes>>
           [] t.pc = "L251" /\ t.raised ->
                \* line 251 raises: the task ends before line 254
                /\ fwdTasks' = [fwdTasks EXCEPT ![n].pc = "raised"]
                /\ ready' = Tail(ready)
                /\ UNCHANGED <<pub, _fwd_successes, balTasks, balWin>>
           [] t.pc = "L251" /\ ~t.raised ->
                \* line 252
                /\ pub' = Publish("fee_revenue", [by |-> n])
                /\ fwdTasks' = [fwdTasks EXCEPT ![n].pc = "L252"]
                /\ ready' = Tail(ready)
                /\ UNCHANGED <<_fwd_successes, balTasks, balWin>>
           [] t.pc = "L252" ->
                \* line 254
                /\ fwdTasks' = [fwdTasks EXCEPT ![n].pc = "done"]
                /\ ready' = Tail(ready)
                /\ UNCHANGED <<pub, _fwd_successes, balTasks, balWin>>

\* lines 176-177, 251: ln.get_fee_revenue_impl() returns or raises
get_fee_revenue_completes ==
    \E n \in DOMAIN fwdTasks, raises \in BOOLEAN :
      /\ fwdTasks[n].pc = "L251" /\ Awaiting(H("flush", n))
      /\ fwdTasks' = [fwdTasks EXCEPT ![n].raised = raises]
      /\ ready' = Append(ready, H("flush", n))
      /\ UNCHANGED <<cfgVars, infoVars, balVars, reg, inv, send, pub, count, fwd,
                     fwdWin, _fwd_update_scheduled, _fwd_successes>>

-----------------------------------------------------------------------------
\* the awaits that carry no result: asyncio.sleep and broadcast_sse_msg

Tasks == {H("info", 0), H("inv", 0)}
           \cup {H("flush", n) : n \in DOMAIN fwdTasks}
           \cup {H("update", n) : n \in DOMAIN balTasks}

PcOf(h) == CASE h.k = "info"   -> info.pc
             [] h.k = "inv"    -> inv.pc
             [] h.k = "flush"  -> fwdTasks[h.i].pc
             [] h.k = "update" -> balTasks[h.i].pc

\* lines 223, 243, 272
SleepLines == {"L223", "L243", "L272"}
\* lines 214, 220, 228, 248, 252, 275
BroadcastLines == {"L214", "L220", "L228", "L248", "L252", "L275"}

\* sleeps of one delay end in the order they began: an earlier cycle of the
\* same kind begins its sleep first
EarlierAsleep(h) ==
    \E m \in 1 .. (h.i - 1) :
        \/ PcOf(H(h.k, m)) = "new"
        \/ PcOf(H(h.k, m)) \in SleepLines /\ Awaiting(H(h.k, m))

sleep_elapses ==
    \E h \in Tasks :
      /\ PcOf(h) \in SleepLines /\ Awaiting(h)
      /\ ~EarlierAsleep(h)
      /\ ready' = Append(ready, h)
      /\ UNCHANGED <<cfgVars, infoVars, fwdVars, balVars, reg, inv, send, pub, count>>

broadcast_sse_msg_returns ==
    \E h \in Tasks :
      /\ PcOf(h) \in BroadcastLines /\ Awaiting(h)
      /\ ready' = Append(ready, h)
      /\ UNCHANGED <<cfgVars, infoVars, fwdVars, balVars, reg, inv, send, pub, count>>

-----------------------------------------------------------------------------
\* the startup guard and the task steps, shared by the specifications
Startup ==
    \/ register_lightning_listener_call
    \/ probe_returns
    \/ probe_raises
    \/ register_lightning_listener_resume

Steps ==
    \/ _handle_info_listener
    \/ _handle_invoice_listener
    \/ _handle_forward_event_listener
    \/ sleep_elapses
    \/ broadcast_sse_msg_returns

\* the whole program
Next ==
    \/ Startup
    \/ Steps
    \/ get_ln_info_impl_returns
    \/ get_ln_info_impl_raises
    \/ listen_invoices_yields
    \/ listen_forward_events_yields
    \/ _schedule_fwd_update
    \/ get_fee_revenue_completes
    \/ _perform_update
    \/ get_wallet_balance_impl_returns
    \/ get_wallet_balance_impl_raises
    \/ send_call
    \/ send_impl_completes
    \/ send_resume

Spec == Init /\ [][Next]_vars

\* the program while no invoice or forward event arrives and no coins or
\* payments are sent: the startup guard and the info poller
NextInfo ==
    \/ Startup
    \/ Steps
    \/ get_ln_info_impl_returns
    \/ get_ln_info_impl_raises

SpecInfo == Init /\ [][NextInfo]_vars

\* the program while the info fetch of the poller is pending and no invoice
\* arrives and nothing is sent, and while the wallet balance fetch of a
\* refresh cycle is pending: the forward aggregator and its flush cycles
NextFwd ==
    \/ Startup
    \/ Steps
    \/ listen_forward_events_yields
    \/ _schedule_fwd_update
    \/ get_fee_revenue_completes
    \/ _perform_update

SpecFwd == Init /\ [][NextFwd]_vars

\* forward notifications at their default setting (lines 47-49), for the
\* specifications in which no forward event arrives and nothing reads it
InitDefault == Init /\ ~ENABLE_FWD_NOTIFICATIONS

\* the program while the info fetch of the poller is pending and no forward
\* event arrives: the producers of the balance signal and the refresh cycles
NextBal ==
    \/ Startup
    \/ Steps
    \/ listen_invoices_yields
    \/ send_call
    \/ send_impl_completes
    \/ send_resume
    \/ _perform_update
    \/ get_wallet_balance_impl_returns
    \/ get_wallet_balance_impl_raises

SpecBal == InitDefault /\ [][NextBal]_vars

\* the program while the info fetch of the poller is pending, no forward
\* event arrives and nothing is sent: the invoice relay and the refresh
\* cycles it schedules
NextInv ==
    \/ Startup
    \/ Steps
    \/ listen_invoices_yields
    \/ _perform_update
    \/ get_wallet_balance_impl_returns
    \/ get_wallet_balance_impl_raises

SpecInv == Init /\ [][NextInv]_vars

\* the program while the info fetch of the poller is pending, no invoice or
\* forward event arrives and the wallet balance fetch returns: the send
\* calls and the refresh cycles they schedule
NextSend ==
    \/ Startup
    \/ Steps
    \/ send_call
    \/ send_impl_completes
    \/ send_resume
    \/ _perform_update
    \/ get_wallet_balance_impl_returns

SpecSend == InitDefault /\ [][NextSend]_vars

-----------------------------------------------------------------------------
\* Properties

\* a delayed cycle has been created and has not finished
Pending(t) == t.pc \notin {"done", "raised"}
PendingCycles(tasks) == {n \in DOMAIN tasks : Pending(tasks[n])}

\* C1: for each single-flight flag, at most one delayed cycle task has been
\* created and not yet finished
C1_AtMostOnePendingCycle ==
    /\ Cardinality(PendingCycles(fwdTasks)) <= 1
    /\ Cardinality(PendingCycles(balTasks)) <= 1

Ascending(l) == \A a, b \in DOMAIN l : a < b => l[a] < l[b]
Elements(l) == {l[a] : a \in DOMAIN l}

\* the forward events that arrived within the wait of flush cycle n, from
\* the arrival that created it to the end of its sleep
FlushWindow(n) == {e \in DOMAIN fwdWin : n \in fwdWin[e]}
\* the flush cycles created by the arrivals in E
FlushCyclesOf(E) == {m \in DOMAIN fwdTasks : fwdTasks[m].by \in E}
\* the published batches that hold an event of E
BatchesWith(E) ==
    {k \in DOMAIN pub.forward_successes :
        Elements(pub.forward_successes[k].l) \cap E # {}}
\* the fee revenue publishes of the cycles in C
RevenuesOf(C) == {k \in DOMAIN pub.fee_revenue : pub.fee_revenue[k].by \in C}

\* C2: with batch notifications enabled, the forward events that arrive
\* within one flush window are published in exactly one batch, which holds
\* all of them in arrival order, and the flush cycles they create publish
\* the fee revenue exactly once
C2_OneFlushPerWindow ==
    ENABLE_FWD_NOTIFICATIONS =>
      \A n \in DOMAIN fwdTasks :
        LET E == FlushWindow(n)
            C == FlushCyclesOf(E)
        IN  (\A m \in C : fwdTasks[m].pc = "done") =>
              /\ Cardinality(BatchesWith(E)) = 1
              /\ \A k \in BatchesWith(E) :
                   /\ E \subseteq Elements(pub.forward_successes[k].l)
                   /\ Ascending(pub.forward_successes[k].l)
              /\ Cardinality(RevenuesOf(C)) = 1

\* the balance signals issued within the delay of refresh cycle n
RefreshWindow(n) == {c \in DOMAIN balWin : n \in balWin[c]}
RefreshCyclesOf(E) == {m \in DOMAIN balTasks : balTasks[m].by \in E}
\* the cycle has called ln.get_wallet_balance_impl()
Fetched(t) == t.pc \in {"L273", "L275", "done", "raised"}
BalancePublishesOf(C) ==
    {k \in DOMAIN pub.wallet_balance : pub.wallet_balance[k].by \in C}

\* C3: the balance signals issued within one refresh delay window lead to
\* exactly one wallet balance fetch and to at most one publish
C3_OneFetchPerWindow ==
    \A n \in DOMAIN balTasks :
      LET C == RefreshCyclesOf(RefreshWindow(n))
      IN  /\ Cardinality({m \in C : Fetched(balTasks[m])}) <= 1
          /\ Cardinality(BalancePublishesOf(C)) <= 1
          /\ balTasks[n].pc = "done" =>
                Cardinality({m \in C : Fetched(balTasks[m])}) = 1

\* the forward events that have been published in a batch
PublishedForwards ==
    UNION {Elements(pub.forward_successes[k].l) : k \in DOMAIN pub.forward_successes}
\* the listener has handled every delivered event and waits for the stream,
\* and every flush cycle has run to its end
ForwardsSettled ==
    /\ fwd.pc = "L256" /\ Awaiting(H("fwd", 0))
    /\ \A n \in DOMAIN fwdTasks : fwdTasks[n].pc = "done"

\* C4: with batch notifications enabled, once the flush cycles have ended
\* every delivered forward event has been published in a batch, without a
\* further arrival
C4_EveryForwardPublished ==
    (ENABLE_FWD_NOTIFICATIONS /\ ForwardsSettled) =>
      \A e \in 1 .. count.forwards : e \in PublishedForwards

RECURSIVE Concat(_)
Concat(batches) ==
    IF batches = <<>> THEN <<>> ELSE Head(batches).l \o Concat(Tail(batches))

\* C5: the published batches, in publish order, followed by the buffer, are
\* the handled forward events in delivery order, each exactly once
C5_NoDuplicationNoReordering ==
    LET s == Concat(pub.forward_successes) \o _fwd_successes
    IN  /\ Ascending(s)
        /\ Elements(s) \subseteq 1 .. count.forwards
        /\ ENABLE_FWD_NOTIFICATIONS => s = [e \in 1 .. Len(fwdWin) |-> e]

\* two batches have been published
C5_Witness == Len(pub.forward_successes) >= 2

\* C6: no two consecutive publishes on the wallet balance channel carry
\* equal values
C6_NoRepeatedBalance ==
    \A k \in DOMAIN pub.wallet_balance :
      k > 1 => pub.wallet_balance[k].wb # pub.wallet_balance[k - 1].wb

NoRepeat(l) == \A k \in DOMAIN l : k > 1 => l[k] # l[k - 1]

\* C7: a fetch of the poller that returns the snapshot of the fetch before
\* publishes neither on full info nor on lite info, and neither channel
\* carries two consecutive equal values
C7_EqualSnapshotSuppressed ==
    /\ \A k \in DOMAIN infoLog :
         (k > 1 /\ infoLog[k].info = infoLog[k - 1].info) =>
           ~infoLog[k].full /\ ~infoLog[k].lite
    /\ NoRepeat(pub.ln_info)
    /\ NoRepeat(pub.ln_info_lite)

\* the poll cycle of fetch k has reached its sleep
CycleComplete(k) == k < Len(infoLog) \/ info.pc = "L223"

\* a cycle whose fetch repeated the snapshot before has completed
C7_Witness ==
    \E k \in DOMAIN infoLog :
      k > 1 /\ infoLog[k].info = infoLog[k - 1].info /\ CycleComplete(k)

\* fetch k differs from the fetch before only outside the lite projection
OnlyOtherFieldsChanged(k) ==
    /\ k > 1
    /\ infoLog[k].info # infoLog[k - 1].info
    /\ from_lninfo(infoLog[k].info) = from_lninfo(infoLog[k - 1].info)

\* C8: a poll cycle whose snapshot differs from the one before only in
\* fields outside the lite projection publishes on full info and not on
\* lite info
C8_FullWithoutLite ==
    \A k \in DOMAIN infoLog :
      OnlyOtherFieldsChanged(k) =>
        /\ ~infoLog[k].lite
        /\ CycleComplete(k) => infoLog[k].full

C8_Witness ==
    \E k \in DOMAIN infoLog : OnlyOtherFieldsChanged(k) /\ CycleComplete(k)

\* C9: the poller task does not end when its fetch fails
C9_PollerSurvivesFetchFailure == info.pc # "raised"

\* C10: the three loops are launched together, exactly when the call has
\* returned from a successful probe; a call that raised (as for a locked
\* wallet) leaves no loop; without a configured backend the call returns
\* normally, without a probe and without a loop
C10_StartupGuard ==
    /\ Loops = {} \/ Loops = {"info", "inv", "fwd"}
    /\ Loops # {} <=> (reg.pc = "returned" /\ reg.res = "ok")
    /\ (reg.res = "HTTP_423_LOCKED" /\ Awaiting(H("reg", 0))) =>
         reg.pc = "raised" /\ Loops = {}
    /\ NotConfigured(ln_node) =>
         ~reg.probed /\ Loops = {} /\ reg.pc \in {"idle", "returned"}

\* the call has raised the locked error of the probe
C10_Witness == reg.pc = "raised" /\ reg.res = "HTTP_423_LOCKED"

\* the invoice events the relay has taken from the stream
RelayHandled ==
    count.invoices - (IF inv.pc = "L227" /\ InReady(H("inv", 0)) THEN 1 ELSE 0)

\* C11: the relay publishes every invoice event it takes from the stream
\* once, equal or not to the one before, in the order of delivery, and
\* signals the balance refresh once after each publish, before it takes the
\* next event (the relay being the only producer of the signal here)
C11_RelayInOrderWithSignal ==
    /\ pub.invoice = SubSeq(inv.stream, 1, RelayHandled)
    /\ Len(balWin) = RelayHandled - (IF inv.pc = "L228" THEN 1 ELSE 0)

\* two equal invoice events in a row have been relayed and signalled
C11_Witness ==
    /\ Len(pub.invoice) = 2 /\ pub.invoice[1] = pub.invoice[2]
    /\ Len(balWin) = 2

\* the flush cycles that have signalled the balance refresh (line 250)
FlushesSignalled ==
    {n \in DOMAIN fwdTasks : fwdTasks[n].pc \in {"L251", "L252", "done", "raised"}}

\* C12: no empty batch is published, and every flush cycle that runs to its
\* end has signalled the balance refresh once and published the fee revenue
\* once, whether or not it found the buffer empty (the flush cycles being
\* the only producers of the signal here)
C12_BatchOnlyIfNonEmpty ==
    /\ \A k \in DOMAIN pub.forward_successes : pub.forward_successes[k].l # <<>>
    /\ Len(balWin) = Cardinality(FlushesSignalled)
    /\ \A n \in DOMAIN fwdTasks :
         fwdTasks[n].pc = "done" => Cardinality(RevenuesOf({n})) = 1

\* a flush cycle has ended that published no batch
C12_Witness ==
    \E n \in DOMAIN fwdTasks :
      /\ fwdTasks[n].pc = "done"
      /\ \A k \in DOMAIN pub.forward_successes : pub.forward_successes[k].by # n

\* C13: with batch notifications disabled the buffer stays empty and no
\* batch is published, and every forward event that finds the forward flag
\* false creates a flush cycle, which on its way to its end signals the
\* balance refresh and publishes the fee revenue
C13_DisabledStillRefreshes ==
    ~ENABLE_FWD_NOTIFICATIONS =>
      /\ _fwd_successes = <<>>
      /\ pub.forward_successes = <<>>
      /\ \A e \in DOMAIN fwd.seen :
           ~fwd.seen[e] =>
             \E n \in DOMAIN fwdTasks :
               /\ fwdTasks[n].by = e
               /\ fwdTasks[n].pc \in {"L252", "done"} => RevenuesOf({n}) # {}
      /\ Len(balWin) >= Cardinality({n \in DOMAIN fwdTasks : RevenuesOf({n}) # {}})

\* with notifications disabled, two events have each had their flush cycle
C13_Witness ==
    /\ ~ENABLE_FWD_NOTIFICATIONS
    /\ Len(fwdTasks) >= 2
    /\ \A n \in DOMAIN fwdTasks : fwdTasks[n].pc = "done"

\* a wallet balance fetch was called after balance signal c: by a cycle
\* that was in its delay at the signal, or by a cycle created later
FetchAfter(c) ==
    \E m \in DOMAIN balTasks :
      /\ m \in balWin[c] \/ balTasks[m].by > c
      /\ Fetched(balTasks[m])
\* every refresh cycle has run to its end
BalanceSettled == \A n \in DOMAIN balTasks : balTasks[n].pc = "done"

\* C14: once the refresh cycles have run to their end, every balance signal
\* has been followed by a wallet balance fetch that was called after it
C14_NoSignalLost ==
    BalanceSettled => \A c \in DOMAIN balWin : FetchAfter(c)

\* the call of f returns to its caller in this step
SendReturns(f) == send[f].pc = SendAwait(f) /\ send'[f].pc = "returned"
\* the call of f raises to its caller in this step
SendRaises(f) == send[f].pc # "raised" /\ send'[f].pc = "raised"

\* C15: with the sends as the only producers, a send that returns signals
\* the balance debounce once, a send that raises leaves the signals, the
\* cycles, the balance flag and the cache as they were, and no other step
\* signals
C15_SendSignalsOnSuccessOnly ==
    [][/\ \A f \in SendFunctions :
            /\ SendReturns(f) => Len(balWin') = Len(balWin) + 1
            /\ SendRaises(f) =>
                 UNCHANGED <<balWin, balTasks, _CACHE,
                             _wallet_balance_update_scheduled>>
       /\ (\A f \in SendFunctions : ~SendReturns(f)) => balWin' = balWin
      ]_vars
\* one send has returned and signalled, the other has raised in the backend
C15_Witness ==
    /\ \E f \in SendFunctions : send[f].pc = "returned"
    /\ \E f \in SendFunctions :
         send[f].pc = "raised" /\ LnImported(ln_node)
    /\ Len(balWin) = 1

\* C16: each single-flight flag is true only while a cycle of its kind has
\* been created and has not ended, normally or by raising
C16_FlagOnlyWhilePending ==
    /\ _fwd_update_scheduled => PendingCycles(fwdTasks) # {}
    /\ _wallet_balance_update_scheduled => PendingCycles(balTasks) # {}

\* the forward flag goes from true to false in this step
FlagCleared == _fwd_update_scheduled /\ ~_fwd_update_scheduled'
\* the forward listener handles an arrival in this step
ArrivalHandled == Len(fwd'.seen) = Len(fwd.seen) + 1

\* C17: the step that clears the forward flag is the last of a flush cycle,
\* which has published its fee revenue after a balance signal and does
\* nothing more; an arrival that finds the flag false creates a flush cycle
C17_FlagClearedLast ==
    [][/\ FlagCleared =>
            /\ \E n \in DOMAIN fwdTasks :
                 /\ fwdTasks[n].pc = "L252" /\ fwdTasks'[n].pc = "done"
                 /\ Cardinality(RevenuesOf({n})) = 1
            /\ Len(balWin) >= Cardinality(RevenuesOf(DOMAIN fwdTasks))
            /\ UNCHANGED <<pub, balWin, _fwd_successes>>
       /\ \A n \in DOMAIN fwdTasks :
            fwdTasks[n].pc = "done" => fwdTasks'[n].pc = "done"
       /\ ArrivalHandled /\ ~_fwd_update_scheduled =>
            /\ Len(fwdTasks') = Len(fwdTasks) + 1
            /\ fwdTasks'[Len(fwdTasks')].pc = "new"
      ]_vars
\* the first cycle has cleared the flag and the next arrival has created a
\* second cycle, which has not run yet
C17_Witness ==
    /\ Len(fwdTasks) = 2
    /\ fwdTasks[1].pc = "done" /\ fwdTasks[2].pc = "new"
    /\ ~_fwd_update_scheduled

\* the payload of the most recent wallet balance publish
LastPublishedBalance ==
    IF pub.wallet_balance = <<>>
      THEN None
      ELSE pub.wallet_balance[Len(pub.wallet_balance)].wb

\* C18: while no refresh cycle is between its publish and its cache update,
\* the cached wallet balance is the payload of the most recent wallet
\* balance publish, or None if there was none
C18_CacheIsLastPublish ==
    (\A n \in DOMAIN balTasks : balTasks[n].pc # "L275") =>
      _CACHE = LastPublishedBalance

\* the fee revenue was fetched by a call made after the backend delivered
\* forward event e, and published: by a cycle that had yet to fetch at the
\* delivery, or by one created at the arrival of e or of a later event
RevenueAfter(e) ==
    \E n \in DOMAIN fwdTasks :
      /\ n \in fwd.ahead[e] \/ fwdTasks[n].by >= e
      /\ RevenuesOf({n}) # {}

\* C19: once the listener has handled every delivered forward event and the
\* flush cycles have ended, every event has been followed by a fee revenue
\* fetch called after its arrival, and by the publish of that revenue
C19_RevenueAfterEveryForward ==
    ForwardsSettled => \A e \in DOMAIN fwd.ahead : RevenueAfter(e)

\* C20: when a poll cycle ends, in the sleep of line 223, last_info_lite is
\* the lite projection of last_info, and a fetch that led to a lite publish
\* led to a full publish as well
C20_GatesInLockstep ==
    /\ info.pc = "L223" =>
         /\ info.last_info # None
         /\ info.last_info_lite = from_lninfo(info.last_info)
    /\ \A k \in DOMAIN infoLog : infoLog[k].lite => infoLog[k].full
\* a cycle after the first has published on both channels and has ended
C20_Witness ==
    /\ info.pc = "L223"
    /\ \E k \in DOMAIN infoLog : k >= 2 /\ infoLog[k].lite /\ infoLog[k].full

=============================================================================
